---- MODULE Spec2Model ----
(***************************************************************************)
(* Model of the real-time voice conversation pipeline of LibraProject.     *)
(*                                                                         *)
(*   Spec          RealtimeVoiceService (apps/bot/.../realtimeVoiceService) *)
(*                 sessions, capture, silence timer, finalize, playback.   *)
(*   PipelineSpec  VoicePipeline.process (apps/gateway/.../voicePipeline)  *)
(*                 ASR -> LLM -> TTS with the providers' outcomes.         *)
(*                                                                         *)
(* A handler of the Node event loop runs to completion, so every handler   *)
(* is one action; an async function is split at its awaits.                *)
(***************************************************************************)
EXTENDS Integers, Sequences, FiniteSets, TLC

\* ------------------------------------------------------------------ bounds
\* RealtimeSession objects a handler can reach at once: the one in
\* activeSessions, or one that was removed while its connection, timer or
\* player can still deliver an event.
MaxSessions == 1
\* processVoicePipeline calls that can be awaiting the gateway at once.
MaxInflight == 2
\* MAX_BUFFER_SIZE is 1000 and minPacketCount is 10 in the source
\* (realtimeVoiceService.ts:229 and :347); the model keeps their order
\* 0 < minPacketCount < MAX_BUFFER_SIZE on a smaller scale.
MAX_BUFFER_SIZE == 4
minPacketCount == 2

\* PCM frames pcmToWav is given at most.
MaxWavFrames == 3

\* --------------------------------------------------------------- constants
\* pcmChunk.length < 1000 is noise (realtimeVoiceService.ts:241)
MinFrameSize == 1000

Users == {"u1", "u2"}
NoUser == "none"
NoSession == 0
\* byte lengths of the decoded frames the decoder can deliver: one below
\* the noise threshold, one at it
FrameSizes == {MinFrameSize - 1, MinFrameSize}

VARIABLES
    activeSessions,   \* Map<string, RealtimeSession>, in insertion order
    sessions,         \* the RealtimeSession objects, by object identity
    inflight,         \* processVoicePipeline calls awaiting the gateway
    lastEvent,        \* the handler that ran last, and what it returned
    joined,           \* users whose last successful joinAndListen was not
                      \* followed by a leave or a Disconnected
    pcfg, ppc, transcript, llmResponse, ttsAudio, calls, presult,
    reply,            \* <<r>>: the gateway route POST /process sent r back
    botResult,        \* <<v>>: the bot's processVoicePipeline resolved to v
    wavChunks,        \* the PCM frames of the utterance being framed
    wavRate,          \* sampleRate and channels pcmToWav is called with
    wavChannels,
    wavBuffer,        \* the Buffer pcmToWav returned
    redis,            \* the rate_limit:<guildId>:<userId> counters; 0: no key
    lastMessage       \* what the MessageCreate handler did with the last message

svars == <<activeSessions, sessions, inflight, lastEvent, joined>>
pvars == <<pcfg, ppc, transcript, llmResponse, ttsAudio, calls, presult,
           reply, botResult>>
wvars == <<wavChunks, wavRate, wavChannels, wavBuffer>>
rvars == <<redis, lastMessage>>
vars == <<activeSessions, sessions, inflight, lastEvent, joined,
          pcfg, ppc, transcript, llmResponse, ttsAudio, calls, presult,
          reply, botResult, wavChunks, wavRate, wavChannels, wavBuffer,
          redis, lastMessage>>

\* the slots session objects live in
SessionIds == DOMAIN sessions

\* ------------------------------------------------ Map<string, session>
Map_keys(m) == [i \in 1..Len(m) |-> m[i].key]
Map_has(m, k) == \E i \in 1..Len(m) : m[i].key = k
Map_get(m, k) ==
    IF Map_has(m, k)
    THEN m[CHOOSE i \in 1..Len(m) : m[i].key = k].value
    ELSE NoSession
Map_set(m, k, v) ==
    IF Map_has(m, k)
    THEN [i \in 1..Len(m) |-> IF m[i].key = k THEN [key |-> k, value |-> v] ELSE m[i]]
    ELSE Append(m, [key |-> k, value |-> v])
Map_delete(m, k) == SelectSeq(m, LAMBDA e : e.key # k)

\* ------------------------------------------------------ RealtimeSession
\* A slot that holds no object.
Blank ==
    [inUse |-> FALSE, userId |-> NoUser, audioChunks |-> <<>>,
     isProcessing |-> FALSE, silenceTimer |-> "null",
     currentAudioStream |-> FALSE, currentDecoder |-> FALSE,
     speakingListener |-> FALSE, receiverListeners |-> 0,
     player |-> "idle", playerListeners |-> FALSE,
     connection |-> "destroyed"]

\* The session object joinAndListen builds, with its connection and player.
NewSession(u) ==
    [inUse |-> TRUE, userId |-> u, audioChunks |-> <<>>,
     isProcessing |-> FALSE, silenceTimer |-> "null",
     currentAudioStream |-> FALSE, currentDecoder |-> FALSE,
     speakingListener |-> FALSE, receiverListeners |-> 0,
     player |-> "idle", playerListeners |-> TRUE,
     connection |-> "open"]

\* What lastEvent holds: the handler, the session object and user it ran
\* for, what it returned (or whether it took effect), and one detail: the
\* frame's byte length for a data event, the number of buffered frames
\* finalize found for a timer event, 1 for a leave that directly follows a
\* leave of the same user.
Event(op, s, u, r, n) == [op |-> op, session |-> s, user |-> u, ret |-> r, arg |-> n]

\* An object no handler can reach any more: it is not in activeSessions,
\* its connection is destroyed (no Ready, Disconnected, speaking or data
\* event), no timer of it is pending, and its player is at rest or has no
\* listener.  A pipeline call in flight may still hold it: all the call
\* does with it is the write of isProcessing in the finally, which nothing
\* reads.
Unreachable(ss, m, s) ==
    /\ ss[s].inUse
    /\ \A i \in 1..Len(m) : m[i].value # s
    /\ ss[s].connection = "destroyed"
    /\ ss[s].silenceTimer # "pending"
    /\ (ss[s].player = "idle" \/ ~ss[s].playerListeners)

Collect(ss, m) ==
    [s \in SessionIds |-> IF Unreachable(ss, m, s) THEN Blank ELSE ss[s]]

\* The calls in flight, where a call that holds an object no handler can
\* reach holds NoSession.
Held(ss, m, infl) ==
    [i \in 1..Len(infl) |->
        IF infl[i].session # NoSession /\ Unreachable(ss, m, infl[i].session)
        THEN [infl[i] EXCEPT !.session = NoSession]
        ELSE infl[i]]

FreeSlots == {s \in SessionIds : ~sessions[s].inUse}


\* ------------------------------------------------------------ helpers
\* cleanupStreams(session): destroy and forget the stream and the decoder.
cleanupStreams(sess) ==
    [sess EXCEPT !.currentAudioStream = FALSE, !.currentDecoder = FALSE]

\* The synchronous part of processVoicePipeline, up to its await fetch:
\* the call is now in flight with the bytes Buffer.concat produced.
Invocation(sid, u, pcmChunks) ==
    [session |-> sid, userId |-> u, pcm |-> pcmChunks]

\* onSilenceDetected without the minPacketCount check
onSilenceDetected_NoMinCheck(ss, infl, u) ==
    LET sid == Map_get(activeSessions, u)
        same == [sessions |-> ss, inflight |-> infl]
    IN  IF sid = NoSession THEN same
        ELSE IF ss[sid].isProcessing THEN same
        ELSE LET pcmChunks == ss[sid].audioChunks
             IN  IF Len(pcmChunks) = 0 THEN same
                 ELSE [sessions |-> [ss EXCEPT ![sid].isProcessing = TRUE,
                                               ![sid].audioChunks = <<>>],
                       inflight |-> Append(infl, Invocation(sid, u, pcmChunks))]

\* onSilenceDetected that clears the buffer only after its await
onSilenceDetected_ClearsLate(ss, infl, u) ==
    LET sid == Map_get(activeSessions, u)
        same == [sessions |-> ss, inflight |-> infl]
    IN  IF sid = NoSession THEN same
        ELSE IF ss[sid].isProcessing THEN same
        ELSE LET pcmChunks == ss[sid].audioChunks
             IN  IF Len(pcmChunks) = 0 THEN same
                 ELSE IF Len(pcmChunks) < minPacketCount
                 THEN [sessions |-> [ss EXCEPT ![sid].audioChunks = <<>>],
                       inflight |-> infl]
                 ELSE [sessions |-> [ss EXCEPT ![sid].isProcessing = TRUE],
                       inflight |-> Append(infl, Invocation(sid, u, pcmChunks))]

\* onSilenceDetected(userId) up to its first await.  ss, infl: the state it
\* runs in; the result is the state it leaves.
onSilenceDetected(ss, infl, u) ==
    LET sid == Map_get(activeSessions, u)
        same == [sessions |-> ss, inflight |-> infl]
    IN  IF sid = NoSession THEN same
        ELSE IF ss[sid].isProcessing THEN same
        ELSE LET pcmChunks == ss[sid].audioChunks
             IN  IF Len(pcmChunks) = 0 THEN same
                 ELSE IF Len(pcmChunks) < minPacketCount
                 THEN [sessions |-> [ss EXCEPT ![sid].audioChunks = <<>>],
                       inflight |-> infl]
                 ELSE [sessions |-> [ss EXCEPT ![sid].isProcessing = TRUE,
                                               ![sid].audioChunks = <<>>],
                       inflight |-> Append(infl, Invocation(sid, u, pcmChunks))]

\* cleanup without the clearTimeout of the silence timer
cleanup_KeepsTimer(m, ss, u) ==
    LET sid == Map_get(m, u)
    IN  IF sid = NoSession THEN [activeSessions |-> m, sessions |-> ss]
        ELSE [activeSessions |-> Map_delete(m, u),
              sessions |->
                [ss EXCEPT ![sid] =
                    [cleanupStreams(ss[sid]) EXCEPT
                        !.receiverListeners =
                            IF ss[sid].speakingListener THEN @ - 1 ELSE @,
                        !.speakingListener = FALSE,
                        !.audioChunks = <<>>,
                        !.player = "idle",
                        !.playerListeners = FALSE,
                        !.connection = "destroyed"]]]

\* cleanup without the activeSessions.delete of its finally
cleanup_NoDelete(m, ss, u) ==
    LET sid == Map_get(m, u)
    IN  IF sid = NoSession THEN [activeSessions |-> m, sessions |-> ss]
        ELSE [activeSessions |-> m,
              sessions |->
                [ss EXCEPT ![sid] =
                    [cleanupStreams(ss[sid]) EXCEPT
                        !.silenceTimer = "null",
                        !.receiverListeners =
                            IF ss[sid].speakingListener THEN @ - 1 ELSE @,
                        !.speakingListener = FALSE,
                        !.audioChunks = <<>>,
                        !.player = "idle",
                        !.playerListeners = FALSE,
                        !.connection = "destroyed"]]]

\* cleanup(userId): m, ss: the state it runs in.
cleanup(m, ss, u) ==
    LET sid == Map_get(m, u)
    IN  IF sid = NoSession THEN [activeSessions |-> m, sessions |-> ss]
        ELSE [activeSessions |-> Map_delete(m, u),
              sessions |->
                [ss EXCEPT ![sid] =
                    [cleanupStreams(ss[sid]) EXCEPT
                        !.silenceTimer = "null",
                        !.receiverListeners =
                            IF ss[sid].speakingListener THEN @ - 1 ELSE @,
                        !.speakingListener = FALSE,
                        !.audioChunks = <<>>,
                        !.player = "idle",
                        !.playerListeners = FALSE,
                        !.connection = "destroyed"]]]

\* Every session action ends here: the new state, with the objects nothing
\* reaches any more released.
Commit(m, ss, infl, ev) ==
    /\ Len(infl) <= MaxInflight
    /\ activeSessions' = m
    /\ sessions' = Collect(ss, m)
    /\ inflight' = Held(ss, m, infl)
    /\ lastEvent' = ev
    /\ joined' = IF ev.op = "joinAndListen" /\ ev.ret THEN joined \cup {ev.user}
                 ELSE IF ev.op \in {"leave", "disconnected"} THEN joined \ {ev.user}
                 ELSE joined
    /\ UNCHANGED <<pvars, wvars, rvars>>

\* pcmChunks.length as onSilenceDetected(u) would find it
bufferedFrames(u) ==
    IF Map_has(activeSessions, u)
    THEN Len(sessions[Map_get(activeSessions, u)].audioChunks)
    ELSE 0

\* 1 when the handler that ran last was a leave of user u
again(u) == IF lastEvent.op = "leave" /\ lastEvent.user = u THEN 1 ELSE 0

\* ------------------------------------------------------------ actions
\* joinAndListen that answers true to the user it turns away
JoinAndListen_ConflictReturnsTrue(u, joinThrows) ==
    LET n == CHOOSE s \in FreeSlots : \A t \in FreeSlots : s <= t
    IN
    IF Len(activeSessions) > 0 /\ Map_keys(activeSessions)[1] # u
    THEN Commit(activeSessions, sessions, inflight,
                Event("joinAndListen", NoSession, u, TRUE, 0))
    ELSE IF joinThrows
    THEN Commit(activeSessions, sessions, inflight,
                Event("joinAndListen", NoSession, u, FALSE, 0))
    ELSE /\ FreeSlots # {}
         /\ Commit(Map_set(activeSessions, u, n),
                   [sessions EXCEPT ![n] = NewSession(u)],
                   inflight,
                   Event("joinAndListen", n, u, TRUE, 0))

\* joinAndListen(channel, userId).  joinThrows: joinVoiceChannel or
\* createAudioPlayer throws and the catch returns false.
JoinAndListen(u, joinThrows) ==
    LET n == CHOOSE s \in FreeSlots : \A t \in FreeSlots : s <= t
    IN
    IF Len(activeSessions) > 0 /\ Map_keys(activeSessions)[1] # u
    THEN Commit(activeSessions, sessions, inflight,
                Event("joinAndListen", NoSession, u, FALSE, 0))
    ELSE IF joinThrows
    THEN Commit(activeSessions, sessions, inflight,
                Event("joinAndListen", NoSession, u, FALSE, 0))
    ELSE /\ FreeSlots # {}
         /\ Commit(Map_set(activeSessions, u, n),
                   [sessions EXCEPT ![n] = NewSession(u)],
                   inflight,
                   Event("joinAndListen", n, u, TRUE, 0))

\* startAutoListening without the receiver.speaking.off of the old listener
startAutoListening_NoOff(ss, u) ==
    LET sid == Map_get(activeSessions, u)
    IN  IF sid = NoSession THEN ss
        ELSE [ss EXCEPT ![sid].receiverListeners = @ + 1,
                        ![sid].speakingListener = TRUE]

\* connection.on(Ready): startAutoListening(userId) registers the
\* speaking listener on the session activeSessions holds for the user.
\* receiverListeners counts the 'start' listeners of the session that are
\* registered on its receiver: off removes the one session.speakingListener
\* holds, on adds the new closure.
startAutoListening(ss, u) ==
    LET sid == Map_get(activeSessions, u)
    IN  IF sid = NoSession THEN ss
        ELSE [ss EXCEPT ![sid].receiverListeners =
                            (IF ss[sid].speakingListener THEN @ - 1 ELSE @) + 1,
                        ![sid].speakingListener = TRUE]

ConnectionReady(s) ==
    /\ sessions[s].inUse
    /\ sessions[s].connection = "open"
    /\ Commit(activeSessions, startAutoListening(sessions, sessions[s].userId),
              inflight, Event("ready", s, sessions[s].userId, TRUE, 0))

\* the speaking listener without the speakingUserId test
speakingListener_AnyUser(sess, su) ==
    [cleanupStreams(sess) EXCEPT
        !.silenceTimer = "null",
        !.audioChunks = <<>>,
        !.currentAudioStream = TRUE,
        !.currentDecoder = TRUE]

\* receiver.speaking 'start' for user su, delivered to the listener that
\* was registered for session object s.
speakingListener(sess, su) ==
    IF su # sess.userId THEN sess
    ELSE [cleanupStreams(sess) EXCEPT
            !.silenceTimer = "null",
            !.audioChunks = <<>>,
            !.currentAudioStream = TRUE,
            !.currentDecoder = TRUE]

SpeakingStart(s, su) ==
    /\ sessions[s].inUse
    /\ sessions[s].connection = "open"
    /\ sessions[s].speakingListener
    /\ Commit(activeSessions,
              [sessions EXCEPT ![s] = speakingListener(sessions[s], su)],
              inflight, Event("speaking", s, su, su = sessions[s].userId, 0))

\* the data handler with <= in place of < in the buffer size check
decoderData_PushAtCap(s, pcmLength) ==
    LET sess == sessions[s]
        same == [sessions |-> sessions, inflight |-> inflight]
        armed(r) == [r EXCEPT !.sessions[s].silenceTimer = "pending"]
    IN  IF sess.isProcessing THEN same
        ELSE IF pcmLength < MinFrameSize THEN same
        ELSE IF Len(sess.audioChunks) <= MAX_BUFFER_SIZE
        THEN armed([sessions |-> [sessions EXCEPT ![s].audioChunks =
                                      Append(sess.audioChunks, pcmLength)],
                    inflight |-> inflight])
        ELSE armed(same)

\* the data handler without the isProcessing check
decoderData_NoProcessingCheck(s, pcmLength) ==
    LET sess == sessions[s]
        same == [sessions |-> sessions, inflight |-> inflight]
        armed(r) == [r EXCEPT !.sessions[s].silenceTimer = "pending"]
    IN  IF pcmLength < MinFrameSize THEN same
        ELSE IF Len(sess.audioChunks) < MAX_BUFFER_SIZE
        THEN armed([sessions |-> [sessions EXCEPT ![s].audioChunks =
                                      Append(sess.audioChunks, pcmLength)],
                    inflight |-> inflight])
        ELSE IF Len(sess.audioChunks) = MAX_BUFFER_SIZE
        THEN armed(onSilenceDetected(sessions, inflight, sess.userId))
        ELSE armed(same)

\* the data handler without the pcmChunk.length test
decoderData_NoSizeCheck(s, pcmLength) ==
    LET sess == sessions[s]
        same == [sessions |-> sessions, inflight |-> inflight]
        armed(r) == [r EXCEPT !.sessions[s].silenceTimer = "pending"]
    IN  IF sess.isProcessing THEN same
        ELSE IF Len(sess.audioChunks) < MAX_BUFFER_SIZE
        THEN armed([sessions |-> [sessions EXCEPT ![s].audioChunks =
                                      Append(sess.audioChunks, pcmLength)],
                    inflight |-> inflight])
        ELSE IF Len(sess.audioChunks) = MAX_BUFFER_SIZE
        THEN armed(onSilenceDetected(sessions, inflight, sess.userId))
        ELSE armed(same)

\* decoder.on('data') of the decoder session object s holds, for a frame
\* of pcmLength bytes.  The handler's session is the captured object s;
\* onSilenceDetected looks the session up again by userId.
decoderData(s, pcmLength) ==
    LET sess == sessions[s]
        same == [sessions |-> sessions, inflight |-> inflight]
        armed(r) == [r EXCEPT !.sessions[s].silenceTimer = "pending"]
    IN  IF sess.isProcessing THEN same
        ELSE IF pcmLength < MinFrameSize THEN same
        ELSE IF Len(sess.audioChunks) < MAX_BUFFER_SIZE
        THEN armed([sessions |-> [sessions EXCEPT ![s].audioChunks =
                                      Append(sess.audioChunks, pcmLength)],
                    inflight |-> inflight])
        ELSE IF Len(sess.audioChunks) = MAX_BUFFER_SIZE
        THEN armed(onSilenceDetected(sessions, inflight, sess.userId))
        ELSE armed(same)

DecoderData(s, pcmLength) ==
    /\ sessions[s].inUse
    /\ sessions[s].connection = "open"
    /\ sessions[s].currentDecoder
    /\ LET r == decoderData(s, pcmLength)
       IN  Commit(activeSessions, r.sessions, r.inflight,
                  Event("data", s, sessions[s].userId,
                        ~sessions[s].isProcessing /\ pcmLength >= MinFrameSize,
                        pcmLength))

\* decoder.on('end'): cleanupStreams(session)
DecoderEnd(s) ==
    /\ sessions[s].inUse
    /\ sessions[s].connection = "open"
    /\ sessions[s].currentDecoder
    /\ Commit(activeSessions,
              [sessions EXCEPT ![s] = cleanupStreams(sessions[s])],
              inflight, Event("end", s, sessions[s].userId, TRUE, 0))

\* The setTimeout callback of session object s: the handle stays in
\* session.silenceTimer, the timer is no longer pending.
SilenceTimerFires(s) ==
    /\ sessions[s].inUse
    /\ sessions[s].silenceTimer = "pending"
    /\ LET r == onSilenceDetected(
                    [sessions EXCEPT ![s].silenceTimer = "stale"],
                    inflight, sessions[s].userId)
       IN  Commit(activeSessions, r.sessions, r.inflight,
                  Event("timer", s, sessions[s].userId,
                        Len(r.inflight) > Len(inflight),
                        bufferedFrames(sessions[s].userId)))

\* What processVoicePipeline resolves to: {success: false}, or success
\* with or without audioResponse.
PipelineResults == {"failed", "text", "audio"}

\* playAudio(userId, audioBuffer): player.play puts the player of the
\* session activeSessions holds into buffering; playThrows: play or
\* subscribe throws and the catch returns false.
playAudio(ss, u, playThrows) ==
    LET sid == Map_get(activeSessions, u)
    IN  IF sid = NoSession THEN ss
        ELSE IF playThrows THEN ss
        ELSE [ss EXCEPT ![sid].player = "buffering"]

\* onSilenceDetected whose finally leaves isProcessing as it is
PipelineCompletes_NoFinally(i, result, playThrows) ==
    /\ i \in 1..Len(inflight)
    /\ LET inv == inflight[i]
           rest == SubSeq(inflight, 1, i - 1) \o SubSeq(inflight, i + 1, Len(inflight))
           played == IF result = "audio"
                     THEN playAudio(sessions, inv.userId, playThrows)
                     ELSE sessions
       IN  Commit(activeSessions, played, rest,
                  Event("completed", inv.session, inv.userId, result = "audio", 0))

\* The await in onSilenceDetected resumes for the i-th call in flight:
\* the result is handled and the finally clears isProcessing of the
\* session object the call was started for.
PipelineCompletes(i, result, playThrows) ==
    /\ i \in 1..Len(inflight)
    /\ LET inv == inflight[i]
           rest == SubSeq(inflight, 1, i - 1) \o SubSeq(inflight, i + 1, Len(inflight))
           played == IF result = "audio"
                     THEN playAudio(sessions, inv.userId, playThrows)
                     ELSE sessions
       IN  Commit(activeSessions,
                  IF inv.session = NoSession THEN played
                  ELSE [played EXCEPT ![inv.session].isProcessing = FALSE],
                  rest,
                  Event("completed", inv.session, inv.userId, result = "audio", 0))

\* The player's state machine as the voice library drives it.
PlayerTransitions ==
    {<<"buffering", "playing">>, <<"buffering", "idle">>,
     <<"playing", "idle">>, <<"playing", "autopaused">>,
     <<"autopaused", "playing">>, <<"autopaused", "idle">>}

\* player.on('stateChange') of the player of session object s
stateChange(ss, u, oldStatus, newStatus) ==
    LET sid == Map_get(activeSessions, u)
        s1 == IF newStatus = "playing" /\ sid # NoSession
              THEN [ss EXCEPT ![sid].isProcessing = TRUE] ELSE ss
        s2 == IF newStatus = "idle" /\ oldStatus = "playing" /\ sid # NoSession
              THEN [s1 EXCEPT ![sid].isProcessing = FALSE] ELSE s1
    IN  s2

PlayerStateChange(s, newStatus) ==
    /\ sessions[s].inUse
    /\ <<sessions[s].player, newStatus>> \in PlayerTransitions
    /\ LET moved == [sessions EXCEPT ![s].player = newStatus]
       IN  Commit(activeSessions,
                  IF sessions[s].playerListeners
                  THEN stateChange(moved, sessions[s].userId, sessions[s].player, newStatus)
                  ELSE moved,
                  inflight, Event("stateChange", s, sessions[s].userId, TRUE, 0))

\* leave that answers true when there is no session
Leave_NoSessionReturnsTrue(u) ==
    LET sid == Map_get(activeSessions, u)
    IN  IF sid = NoSession
        THEN Commit(activeSessions, sessions, inflight,
                    Event("leave", NoSession, u, TRUE, again(u)))
        ELSE IF sessions[sid].connection = "destroyed"
        THEN Commit(activeSessions, sessions, inflight,
                    Event("leave", sid, u, FALSE, again(u)))
        ELSE LET c == cleanup(activeSessions,
                              [sessions EXCEPT ![sid].connection = "destroyed"], u)
             IN  Commit(c.activeSessions, c.sessions, inflight,
                        Event("leave", sid, u, TRUE, again(u)))

\* leave(userId): connection.destroy() throws on a connection that is
\* already destroyed, and the catch returns false.
Leave(u) ==
    LET sid == Map_get(activeSessions, u)
    IN  IF sid = NoSession
        THEN Commit(activeSessions, sessions, inflight,
                    Event("leave", NoSession, u, FALSE, again(u)))
        ELSE IF sessions[sid].connection = "destroyed"
        THEN Commit(activeSessions, sessions, inflight,
                    Event("leave", sid, u, FALSE, again(u)))
        ELSE LET c == cleanup(activeSessions,
                              [sessions EXCEPT ![sid].connection = "destroyed"], u)
             IN  Commit(c.activeSessions, c.sessions, inflight,
                        Event("leave", sid, u, TRUE, again(u)))

\* connection.on(Disconnected), registered twice: cleanup(userId) twice.
ConnectionDisconnected(s) ==
    /\ sessions[s].inUse
    /\ sessions[s].connection = "open"
    /\ LET c1 == cleanup(activeSessions, sessions, sessions[s].userId)
           c2 == cleanup(c1.activeSessions, c1.sessions, sessions[s].userId)
       IN  Commit(c2.activeSessions, c2.sessions, inflight,
                  Event("disconnected", s, sessions[s].userId, TRUE, 0))

\* The voice library destroys the connection itself (its adapter is
\* destroyed: the bot is removed from the guild, the shard goes away); no
\* Disconnected is emitted and no handler of the service runs.
ConnectionDestroyed(s) ==
    /\ sessions[s].inUse
    /\ sessions[s].connection = "open"
    /\ Commit(activeSessions, [sessions EXCEPT ![s].connection = "destroyed"],
              inflight, Event("destroyed", s, sessions[s].userId, TRUE, 0))

\* ------------------------------------------------- the session machine
\* No VoicePipeline.process call is modelled in the session machine.
PIdle ==
    /\ pcfg = "none" /\ ppc = "idle" /\ transcript = <<>> /\ llmResponse = <<>>
    /\ ttsAudio = <<>> /\ calls = <<>> /\ presult = "none"
    /\ reply = <<>> /\ botResult = <<>>

\* No pcmToWav call is modelled in the session machine.
WIdle ==
    /\ wavChunks = <<>> /\ wavRate = 0 /\ wavChannels = 0 /\ wavBuffer = <<>>

\* No message has been handled and Redis holds no rate-limit key.
Guilds == {"g1", "dm"}
NoMessage == [user |-> NoUser, guild |-> "dm", current |-> 0,
              forwarded |-> FALSE, reply |-> "none"]
RIdle ==
    /\ redis = [u \in Users |-> [g \in Guilds |-> 0]]
    /\ lastMessage = NoMessage

SInit ==
    /\ activeSessions = <<>>
    /\ sessions = [s \in 1..MaxSessions |-> Blank]
    /\ inflight = <<>>
    /\ lastEvent = Event("none", NoSession, NoUser, FALSE, 0)
    /\ joined = {}

Init == SInit /\ PIdle /\ WIdle /\ RIdle

\* The handlers of the service.
Handlers ==
    \/ \E u \in Users, joinThrows \in BOOLEAN : JoinAndListen(u, joinThrows)
    \/ \E u \in Users : Leave(u)
    \/ \E s \in SessionIds : ConnectionReady(s)
    \/ \E s \in SessionIds : ConnectionDisconnected(s)
    \/ \E s \in SessionIds, su \in Users : SpeakingStart(s, su)
    \/ \E s \in SessionIds, pcmLength \in FrameSizes : DecoderData(s, pcmLength)
    \/ \E s \in SessionIds : DecoderEnd(s)
    \/ \E s \in SessionIds : SilenceTimerFires(s)
    \/ \E i \in 1..MaxInflight, result \in PipelineResults, playThrows \in BOOLEAN :
          PipelineCompletes(i, result, playThrows)
    \/ \E s \in SessionIds, newStatus \in {"playing", "idle", "autopaused"} :
          PlayerStateChange(s, newStatus)

Next ==
    \/ Handlers
    \/ \E s \in SessionIds : ConnectionDestroyed(s)

Spec == Init /\ [][Next]_vars

\* The service under joinAndListen, leave, Disconnected and the capture and
\* playback events only: the voice library never destroys a connection on
\* its own.
LifecycleSpec == Init /\ [][Handlers]_vars

\* ===================================================== claims: sessions
InFlightOf(s) == {i \in 1..Len(inflight) : inflight[i].session = s}

\* The calls in flight, whatever session object each of them holds.
Pending(infl) ==
    [i \in 1..Len(infl) |-> [userId |-> infl[i].userId, pcm |-> infl[i].pcm]]

\* The step is a finalize: onSilenceDetected ran for the session sid that
\* activeSessions held, from the timer of object s or from the buffer-cap
\* branch of its decoder.
TimerFinalize(sid) ==
    /\ lastEvent'.op = "timer"
    /\ sid = Map_get(activeSessions, lastEvent'.user)
    /\ sid # NoSession
CapFinalize(sid) ==
    /\ lastEvent'.op = "data"
    /\ lastEvent'.ret
    /\ Len(sessions[lastEvent'.session].audioChunks) = MAX_BUFFER_SIZE
    /\ sid = Map_get(activeSessions, lastEvent'.user)
    /\ sid # NoSession
Finalize(sid) == TimerFinalize(sid) \/ CapFinalize(sid)

\* C1: in every reachable state every session has at most one
\* processVoicePipeline call in flight.
C1_AtMostOneInFlight ==
    \A s \in SessionIds : Cardinality(InFlightOf(s)) <= 1

C3_JoinConflict ==
    [][\A u \in Users :
        (/\ lastEvent'.op = "joinAndListen"
         /\ lastEvent'.user = u
         /\ \E v \in Users \ {u} : Map_has(activeSessions, v))
        => /\ ~lastEvent'.ret
           /\ activeSessions' = activeSessions
           /\ sessions' = sessions
           /\ Pending(inflight') = Pending(inflight)]_vars

\* a join was refused while the other user's session is there
C3_Witness ==
    /\ lastEvent.op = "joinAndListen"
    /\ ~lastEvent.ret
    /\ \E v \in Users \ {lastEvent.user} :
          /\ Map_has(activeSessions, v)
          /\ sessions[Map_get(activeSessions, v)].userId = v

\* C4: a leave(u) that directly follows a leave(u) returns false and
\* changes no state, and a leave(u) without a session of u returns false
\* and changes no state.
C4_LeaveIdempotent ==
    [][\A u \in Users :
        (/\ lastEvent'.op = "leave"
         /\ lastEvent'.user = u
         /\ \/ lastEvent.op = "leave" /\ lastEvent.user = u
            \/ ~Map_has(activeSessions, u))
        => /\ ~lastEvent'.ret
           /\ activeSessions' = activeSessions
           /\ sessions' = sessions
           /\ Pending(inflight') = Pending(inflight)]_vars

\* a second leave in a row returned false, after the first leave had
\* removed the session while a pipeline call of it was in flight
C4_Witness ==
    /\ lastEvent.op = "leave"
    /\ lastEvent.arg = 1
    /\ ~lastEvent.ret
    /\ ~Map_has(activeSessions, lastEvent.user)
    /\ \E i \in 1..Len(inflight) :
          inflight[i].userId = lastEvent.user /\ inflight[i].session = NoSession

C6_BufferBounded ==
    \A s \in SessionIds : Len(sessions[s].audioChunks) <= MAX_BUFFER_SIZE

\* the accepted frame that filled a buffer to the cap
C6_Witness ==
    /\ lastEvent.op = "data"
    /\ lastEvent.ret
    /\ \E s \in SessionIds : Len(sessions[s].audioChunks) = MAX_BUFFER_SIZE

\* C7: a data event of a session whose isProcessing is true changes
\* nothing: not the buffer, not the timer, and no finalize runs.
C7_FrameDroppedWhileProcessing ==
    [][\A s \in SessionIds :
        (/\ lastEvent'.op = "data"
         /\ lastEvent'.session = s
         /\ sessions[s].isProcessing)
        => /\ sessions' = sessions
           /\ Pending(inflight') = Pending(inflight)
           /\ activeSessions' = activeSessions]_vars

\* a frame of a size that is otherwise accepted was dropped while a timer
\* was pending and the session was processing
C7_Witness ==
    /\ lastEvent.op = "data"
    /\ lastEvent.arg >= MinFrameSize
    /\ ~lastEvent.ret
    /\ sessions[lastEvent.session].isProcessing
    /\ sessions[lastEvent.session].silenceTimer = "pending"

\* C8: a speech-start of the session's own user while isProcessing is
\* true leaves audioChunks, currentDecoder and currentAudioStream as they
\* are.
C8_SpeechStartIgnoredWhileProcessing ==
    [][\A s \in SessionIds :
        (/\ lastEvent'.op = "speaking"
         /\ lastEvent'.session = s
         /\ lastEvent'.ret
         /\ sessions[s].isProcessing)
        => /\ sessions'[s].audioChunks = sessions[s].audioChunks
           /\ sessions'[s].currentDecoder = sessions[s].currentDecoder
           /\ sessions'[s].currentAudioStream = sessions[s].currentAudioStream]_vars

\* C9: the data event that appends the MAX_BUFFER_SIZE-th frame invokes
\* the orchestrator in the same step, on the buffered frames.
C9_CapFinalizesAtOnce ==
    [][\A s \in SessionIds :
        (/\ lastEvent'.op = "data"
         /\ lastEvent'.session = s
         /\ lastEvent'.ret
         /\ Len(sessions[s].audioChunks) = MAX_BUFFER_SIZE - 1)
        => /\ Len(inflight') = Len(inflight) + 1
           /\ inflight'[Len(inflight')].pcm =
                 Append(sessions[s].audioChunks, lastEvent'.arg)]_vars

\* C16: a leave or a Disconnected leaves the calls in flight as many as
\* they are; when the result of a call arrives whose session was removed,
\* activeSessions and every session object stay as they are: no player
\* starts to play, no session is created or changed.
C16_LateResultDiscarded ==
    [][/\ (lastEvent'.op \in {"leave", "disconnected"}
             => Len(inflight') = Len(inflight))
       /\ (lastEvent'.op = "completed" /\ lastEvent'.session = NoSession)
             => /\ activeSessions' = activeSessions
                /\ sessions' = sessions]_vars

\* C17: the session of every call in flight has isProcessing true.
C17_ProcessingWhileInFlight ==
    \A i \in 1..Len(inflight) :
        inflight[i].session # NoSession
        => sessions[inflight[i].session].isProcessing

\* C20: when a call completes without audio to play (the gateway call
\* failed, or the result holds no audio), activeSessions stays as it is,
\* so every session in it stays in it, and no session object changes but
\* for isProcessing of the call's session, which is false.
C20_FailedTurnKeepsSession ==
    [][\A s \in SessionIds :
        (/\ lastEvent'.op = "completed"
         /\ lastEvent'.session = s
         /\ ~lastEvent'.ret)
        => /\ activeSessions' = activeSessions
           /\ Len(inflight') = Len(inflight) - 1
           /\ sessions' = [sessions EXCEPT ![s].isProcessing = FALSE]]_vars

\* a call has completed without audio; its session is in activeSessions,
\* is not processing, and its connection is open
C20_Witness ==
    /\ lastEvent.op = "completed"
    /\ ~lastEvent.ret
    /\ lastEvent.session # NoSession
    /\ Map_get(activeSessions, lastEvent.user) = lastEvent.session
    /\ ~sessions[lastEvent.session].isProcessing
    /\ sessions[lastEvent.session].connection = "open"

\* What cleanup leaves of a session object: no timer, no decoder, no audio
\* stream, no speaking listener, no buffered frame, a destroyed connection.
TornDown(sess) ==
    /\ sess.silenceTimer = "null"
    /\ ~sess.currentDecoder
    /\ ~sess.currentAudioStream
    /\ ~sess.speakingListener
    /\ sess.audioChunks = <<>>
    /\ sess.connection = "destroyed"

\* C21: a leave that returns true, and a Disconnected, for a user whose
\* session is sid: cleanup leaves the object torn down, the user has no
\* session afterwards, and the object is released, so that no timer,
\* frame, speech-start or player event of it can run any more; the step
\* itself invokes no orchestrator.
C21_TeardownIsComplete ==
    [][\A sid \in SessionIds :
        (/\ \/ lastEvent'.op = "leave" /\ lastEvent'.ret
            \/ lastEvent'.op = "disconnected"
         /\ sid = Map_get(activeSessions, lastEvent'.user))
        => /\ TornDown(cleanup(activeSessions, sessions, lastEvent'.user).sessions[sid])
           /\ ~Map_has(activeSessions', lastEvent'.user)
           /\ sessions'[sid] = Blank
           /\ Pending(inflight') = Pending(inflight)]_vars

\* a Disconnected removed a session that was processing: its call is
\* still in flight and its object is released
C21_Witness ==
    /\ lastEvent.op = "disconnected"
    /\ lastEvent.session # NoSession
    /\ sessions[lastEvent.session] = Blank
    /\ activeSessions = <<>>
    /\ \E i \in 1..Len(inflight) :
          inflight[i].userId = lastEvent.user /\ inflight[i].session = NoSession

\* The session object holds no decoder, no audio stream and no pending
\* silence timer.
Released(sess) ==
    /\ ~sess.currentDecoder
    /\ ~sess.currentAudioStream
    /\ sess.silenceTimer # "pending"

\* C22: after a finalize that invokes the orchestrator, after a finalize
\* that discards a short buffer, and after a pipeline call that completes
\* without a result to play, the session holds no decoder, no audio
\* stream and no pending silence timer.
C22_StreamsReleasedOnEveryExit ==
    [][\A sid \in SessionIds :
        (\/ Finalize(sid) /\ Len(inflight') > Len(inflight)
         \/ /\ Finalize(sid)
            /\ ~sessions[sid].isProcessing
            /\ Len(sessions[sid].audioChunks) > 0
            /\ Len(sessions[sid].audioChunks) < minPacketCount
         \/ /\ lastEvent'.op = "completed"
            /\ lastEvent'.session = sid
            /\ ~lastEvent'.ret)
        => Released(sessions'[sid])]_vars

\* ================================================== VoicePipeline.process
\* Texts and audio are sequences of tokens; Undefined stands for null and
\* undefined (no value).  The empty sequence is the empty string or Buffer.
Undefined == <<"undefined">>
Falsy(x) == x = Undefined \/ x = <<>>

\* The configurations the constructor can read from the environment.
Configs ==
    [asrProvider : {"local", "external"}, asrExternalUrl : {"", "url"},
     llmProvider : {"ollama", "openai"}, llmBaseUrl : {"", "url"},
     ttsProvider : {"cloudflare", "elevenlabs", "piper"},
     cfApiToken : {"", "token"}, cfAccountId : {"", "account"},
     elevenLabsKey : {"", "key"}, piperTtsUrl : {"", "url"}]

\* What a provider can answer: the fetch throws, a non-2xx status, or a
\* 2xx with a body (Undefined: the field is missing from the JSON).
AsrBodies == {Undefined, <<>>, <<"hello">>}
LlmBodies ==
    {Undefined, <<>>, <<"answer">>,
     <<"<think>", "why", "</think>", " ", "answer">>,
     <<"<think>", "why", "</think>", " ">>,
     <<"<think>", "why">>}
\* Buffer.toString('base64') and Buffer.from(text, 'base64'), on the
\* tokens audio is made of
Base64Table ==
    [t \in {"riff", "pcm", "id3", "mpeg"} |->
        CASE t = "riff" -> "cmlmZg" [] t = "pcm" -> "cGNt"
          [] t = "id3" -> "aWQz" [] t = "mpeg" -> "bXBlZw"]
toBase64(buffer) == [i \in 1..Len(buffer) |-> Base64Table[buffer[i]]]
fromBase64(text) ==
    [i \in 1..Len(text) |->
        CHOOSE t \in DOMAIN Base64Table : Base64Table[t] = text[i]]

\* Cloudflare answers JSON whose result.audio is base64 text (or is
\* missing); ElevenLabs and Piper answer the audio bytes.
TtsBodiesOf(provider) ==
    IF provider = "tts:cloudflare"
    THEN {Undefined, <<>>, toBase64(<<"riff", "pcm">>)}
    ELSE IF provider = "tts:elevenlabs" THEN {<<>>, <<"id3", "mpeg">>}
    ELSE {<<>>, <<"riff", "pcm">>}
TtsBodies ==
    TtsBodiesOf("tts:cloudflare") \cup TtsBodiesOf("tts:elevenlabs")
    \cup TtsBodiesOf("tts:piper")
Outcomes(bodies) ==
    {[kind |-> "throw", body |-> Undefined], [kind |-> "status", body |-> Undefined]}
    \cup {[kind |-> "ok", body |-> b] : b \in bodies}

\* x || null
OrNull(x) == IF Falsy(x) THEN Undefined ELSE x

\* speechToText / externalWhisperTranscribe: which endpoint is called
asrEndpoint(cfg) ==
    IF cfg.asrProvider = "external" /\ cfg.asrExternalUrl # ""
    THEN "asr:external" ELSE "asr:local"

\* the value speechToText resolves to for the provider's answer
speechToText(r) == IF r.kind = "ok" THEN OrNull(r.body) ELSE Undefined

\* generateResponse: which endpoint is called
llmEndpoint(cfg) ==
    IF cfg.llmProvider = "openai" /\ cfg.llmBaseUrl # ""
    THEN "llm:openai" ELSE "llm:ollama"

\* content.split('</think>'): the last part
RECURSIVE lastPart(_)
lastPart(content) ==
    IF \E i \in 1..Len(content) : content[i] = "</think>"
    THEN lastPart(SubSeq(content,
             (CHOOSE i \in 1..Len(content) : content[i] = "</think>") + 1,
             Len(content)))
    ELSE content

\* String.prototype.trim
RECURSIVE trim(_)
trim(t) ==
    IF t # <<>> /\ t[1] = " " THEN trim(Tail(t))
    ELSE IF t # <<>> /\ t[Len(t)] = " " THEN trim(SubSeq(t, 1, Len(t) - 1))
    ELSE t

\* openaiCompatibleGenerate: the <think> filter on the content
stripThink(content) ==
    IF ~Falsy(content) /\ (\E i \in 1..Len(content) : content[i] = "<think>")
    THEN IF \E i \in 1..Len(content) : content[i] = "</think>"
         THEN trim(lastPart(content))
         ELSE content
    ELSE content

\* the value generateResponse resolves to for the provider's answer
generateResponse(cfg, r) ==
    IF r.kind # "ok" THEN Undefined
    ELSE IF llmEndpoint(cfg) = "llm:openai" THEN stripThink(OrNull(r.body))
    ELSE OrNull(r.body)

\* textToSpeech: the provider it tries next, after the providers in tried
nextTts(cfg, tried) ==
    IF /\ "tts:cloudflare" \notin tried /\ "tts:elevenlabs" \notin tried
       /\ "tts:piper" \notin tried
       /\ cfg.ttsProvider = "cloudflare" /\ cfg.cfApiToken # "" /\ cfg.cfAccountId # ""
    THEN "tts:cloudflare"
    ELSE IF /\ "tts:elevenlabs" \notin tried /\ "tts:piper" \notin tried
            /\ cfg.ttsProvider = "elevenlabs" /\ cfg.elevenLabsKey # ""
    THEN "tts:elevenlabs"
    ELSE IF "tts:piper" \notin tried /\ cfg.piperTtsUrl # ""
    THEN "tts:piper"
    ELSE "none"

\* cloudflareTTS / elevenLabsTTS / piperTTS: the Buffer or null.
\* Cloudflare answers JSON: Buffer.from(undefined, 'base64') throws.
ttsProviderResult(provider, r) ==
    IF r.kind # "ok" THEN Undefined
    ELSE IF provider = "tts:cloudflare"
    THEN IF r.body = Undefined THEN Undefined ELSE fromBase64(r.body)
    ELSE r.body

\* calls logs the requests process has sent, in order, each with the
\* provider's answer, "pending", "throw", "status" or "ok", and the body of
\* an ok answer.
Call(endpoint) == [to |-> endpoint, answer |-> "pending", body |-> Undefined]
Answered(c, r) == [c EXCEPT ![Len(c)].answer = r.kind, ![Len(c)].body = r.body]
Tried(c) == {c[i].to : i \in 1..Len(c)}

Result(success, t, l, a, e) ==
    [success |-> success, transcript |-> t, llmResponse |-> l,
     audioResponse |-> a, error |-> e]

PSet(pc, t, l, a, c, r) ==
    /\ ppc' = pc /\ transcript' = t /\ llmResponse' = l /\ ttsAudio' = a
    /\ calls' = c /\ presult' = r
    /\ UNCHANGED <<pcfg, reply, botResult, svars, wvars, rvars>>

\* process that sends the ASR and the LLM request together
Process_BothRequests ==
    /\ ppc = "start"
    /\ PSet("asr", transcript, llmResponse, ttsAudio,
            <<Call(llmEndpoint(pcfg)), Call(asrEndpoint(pcfg))>>, presult)

\* process(audioBuffer): up to the await of the ASR request
Process ==
    /\ ppc = "start"
    /\ PSet("asr", transcript, llmResponse, ttsAudio,
            Append(calls, Call(asrEndpoint(pcfg))), presult)

\* process without the check of the transcript
processAfterAsr_NoCheck(r) ==
    LET t == speechToText(r)
    IN  PSet("llm", t, llmResponse, ttsAudio,
             Append(Answered(calls, r), Call(llmEndpoint(pcfg))), presult)

\* process resumes with the ASR answer: fails, or goes on to the LLM request
processAfterAsr(r) ==
    LET t == speechToText(r)
    IN  IF Falsy(t)
        THEN PSet("done", transcript, llmResponse, ttsAudio, Answered(calls, r),
                  Result(FALSE, Undefined, Undefined, Undefined, "ASR"))
        ELSE PSet("llm", t, llmResponse, ttsAudio,
                  Append(Answered(calls, r), Call(llmEndpoint(pcfg))), presult)

AsrResponds(r) ==
    /\ ppc = "asr"
    /\ processAfterAsr(r)

\* process that reports a turn without audio as a failure
processAfterTts_NoAudioIsError(a, c) ==
    IF a = Undefined
    THEN PSet("done", transcript, llmResponse, a, c,
              Result(FALSE, transcript, llmResponse, Undefined, "TTS"))
    ELSE PSet("done", transcript, llmResponse, a, c,
              Result(TRUE, transcript, llmResponse, a, ""))

\* the end of process once textToSpeech has resolved to audio a; c: the
\* requests sent
processAfterTts(a, c) ==
    IF a = Undefined
    THEN PSet("done", transcript, llmResponse, a, c,
              Result(TRUE, transcript, llmResponse, Undefined, ""))
    ELSE PSet("done", transcript, llmResponse, a, c,
              Result(TRUE, transcript, llmResponse, a, ""))

\* process without the check of the LLM response
processAfterLlm_NoCheck(r) ==
    LET l == generateResponse(pcfg, r)
        first == nextTts(pcfg, {})
    IN  IF first = "none"
        THEN PSet("done", transcript, l, Undefined, Answered(calls, r),
                  Result(TRUE, transcript, l, Undefined, ""))
        ELSE PSet("tts", transcript, l, ttsAudio,
                  Append(Answered(calls, r), Call(first)), presult)

\* process resumes with the LLM answer: fails with the transcript, or goes
\* on to textToSpeech and its first provider
processAfterLlm(r) ==
    LET l == generateResponse(pcfg, r)
        first == nextTts(pcfg, {})
    IN  IF Falsy(l)
        THEN PSet("done", transcript, llmResponse, ttsAudio, Answered(calls, r),
                  Result(FALSE, transcript, Undefined, Undefined, "LLM"))
        ELSE IF first = "none"
        THEN PSet("done", transcript, l, Undefined, Answered(calls, r),
                  Result(TRUE, transcript, l, Undefined, ""))
        ELSE PSet("tts", transcript, l, ttsAudio,
                  Append(Answered(calls, r), Call(first)), presult)

LlmResponds(r) ==
    /\ ppc = "llm"
    /\ processAfterLlm(r)

\* textToSpeech that goes on to the next provider after a success
TtsResponds_TriesAll(r) ==
    /\ ppc = "tts"
    /\ r.kind = "ok" => r.body \in TtsBodiesOf(calls[Len(calls)].to)
    /\ LET provider == calls[Len(calls)].to
           a == ttsProviderResult(provider, r)
           next == nextTts(pcfg, Tried(calls))
       IN  IF next # "none"
           THEN PSet("tts", transcript, llmResponse, ttsAudio,
                     Append(Answered(calls, r), Call(next)), presult)
           ELSE processAfterTts(a, Answered(calls, r))

\* textToSpeech resumes with a provider's answer: returns its Buffer, or
\* tries the next provider, or resolves to null
TtsResponds(r) ==
    /\ ppc = "tts"
    /\ r.kind = "ok" => r.body \in TtsBodiesOf(calls[Len(calls)].to)
    /\ LET provider == calls[Len(calls)].to
           a == ttsProviderResult(provider, r)
           next == nextTts(pcfg, Tried(calls))
       IN  IF a # Undefined THEN processAfterTts(a, Answered(calls, r))
           ELSE IF next = "none" THEN processAfterTts(Undefined, Answered(calls, r))
           ELSE PSet("tts", transcript, llmResponse, ttsAudio,
                     Append(Answered(calls, r), Call(next)), presult)

\* POST /process after pipeline.process has returned result: the reply
voiceRoute(result) ==
    IF ~result.success /\ Falsy(result.llmResponse)
    THEN [status |-> 500, transcript |-> Undefined, response |-> Undefined,
          audio |-> Undefined]
    ELSE [status |-> 200, transcript |-> result.transcript,
          response |-> result.llmResponse,
          audio |-> IF result.audioResponse # Undefined
                    THEN toBase64(result.audioResponse) ELSE Undefined]

RouteReplies ==
    /\ ppc = "done"
    /\ reply = <<>>
    /\ reply' = <<voiceRoute(presult)>>
    /\ UNCHANGED <<pcfg, ppc, transcript, llmResponse, ttsAudio, calls, presult,
                   botResult, svars, wvars, rvars>>

\* the bot's processVoicePipeline from its await fetch on: the value it
\* resolves to for the gateway's reply; fetchThrows: the fetch or
\* response.json() throws and the catch returns {success: false}
processVoicePipeline(r, fetchThrows) ==
    IF fetchThrows \/ r.status # 200
    THEN [success |-> FALSE, transcript |-> Undefined, llmResponse |-> Undefined,
          audioResponse |-> Undefined]
    ELSE [success |-> TRUE, transcript |-> r.transcript, llmResponse |-> r.response,
          audioResponse |-> IF Falsy(r.audio) THEN Undefined ELSE fromBase64(r.audio)]

BotReceives(fetchThrows) ==
    /\ reply # <<>>
    /\ botResult = <<>>
    /\ botResult' = <<processVoicePipeline(reply[1], fetchThrows)>>
    /\ UNCHANGED <<pcfg, ppc, transcript, llmResponse, ttsAudio, calls, presult,
                   reply, svars, wvars, rvars>>

PInit ==
    /\ pcfg \in Configs
    /\ ppc = "start"
    /\ transcript = Undefined /\ llmResponse = Undefined /\ ttsAudio = Undefined
    /\ calls = <<>>
    /\ presult = "none"
    /\ reply = <<>>
    /\ botResult = <<>>

PipelineInit == SInit /\ PInit /\ WIdle /\ RIdle

PipelineNext ==
    \/ Process
    \/ \E r \in Outcomes(AsrBodies) : AsrResponds(r)
    \/ \E r \in Outcomes(LlmBodies) : LlmResponds(r)
    \/ \E r \in Outcomes(TtsBodies) : TtsResponds(r)
    \/ RouteReplies
    \/ \E fetchThrows \in BOOLEAN : BotReceives(fetchThrows)

PipelineSpec == PipelineInit /\ [][PipelineNext]_vars

\* ====================================================== claims: pipeline
\* C10: once the ASR provider has failed (an exception or a non-2xx
\* status), process has ended with success false and no transcript, and
\* no request other than the ASR request was ever sent.
C10_AsrFailureStopsTheTurn ==
    (Len(calls) >= 1 /\ calls[1].answer \in {"throw", "status"})
    => /\ ppc = "done"
       /\ presult.success = FALSE
       /\ presult.transcript = Undefined
       /\ Len(calls) = 1
       /\ calls[1].to \in {"asr:local", "asr:external"}

\* the ASR provider answered with a non-2xx status in a configuration that
\* has an LLM and a TTS provider to go on to
C10_Witness ==
    /\ Len(calls) = 1
    /\ calls[1].answer = "status"
    /\ ppc = "done"
    /\ presult.success = FALSE
    /\ nextTts(pcfg, {}) # "none"

\* What the stages of the call made of the providers' answers.
AsrEndpoints == {"asr:local", "asr:external"}
LlmEndpoints == {"llm:ollama", "llm:openai"}
TtsEndpoints == {"tts:cloudflare", "tts:elevenlabs", "tts:piper"}
AnswerOf(c) == [kind |-> c.answer, body |-> c.body]
AsrCalls == {i \in 1..Len(calls) : calls[i].to \in AsrEndpoints}
LlmCalls == {i \in 1..Len(calls) : calls[i].to \in LlmEndpoints}
TtsCalls == {i \in 1..Len(calls) : calls[i].to \in TtsEndpoints}
AsrTranscript == speechToText(AnswerOf(calls[1]))
LlmText == generateResponse(pcfg, AnswerOf(calls[2]))
AsrSucceeded ==
    /\ Len(calls) >= 1 /\ calls[1].to \in AsrEndpoints
    /\ calls[1].answer # "pending" /\ ~Falsy(AsrTranscript)
LlmAnswered ==
    /\ Len(calls) >= 2 /\ calls[2].to \in LlmEndpoints
    /\ calls[2].answer # "pending"
LlmSucceeded == LlmAnswered /\ ~Falsy(LlmText)
TtsResultOf(i) == ttsProviderResult(calls[i].to, AnswerOf(calls[i]))
TtsFailed(i) == calls[i].answer # "pending" /\ TtsResultOf(i) = Undefined
TtsRank(endpoint) ==
    CASE endpoint = "tts:cloudflare" -> 1
      [] endpoint = "tts:elevenlabs" -> 2
      [] endpoint = "tts:piper" -> 3

\* C11: when process has ended, ASR and LLM produced a transcript and a
\* response and every TTS provider that was tried failed, the result is
\* success with that transcript and response, no audio and no error.
C11_TtsExhaustionIsTextOnly ==
    (/\ ppc = "done" /\ AsrSucceeded /\ LlmSucceeded
     /\ \A i \in TtsCalls : TtsFailed(i))
    => presult = Result(TRUE, AsrTranscript, LlmText, Undefined, "")

\* two TTS providers were tried and both failed, and process has returned
C11_Witness ==
    /\ ppc = "done" /\ AsrSucceeded /\ LlmSucceeded
    /\ Cardinality(TtsCalls) = 2
    /\ \A i \in TtsCalls : TtsFailed(i)
    /\ presult.success

\* C12 as stated: the result of process has success false only when ASR
\* failed, and has success true only with a transcript and a response.
C12_FailureOnlyFromAsr ==
    ppc = "done"
    => /\ (~presult.success => ~AsrSucceeded)
       /\ (presult.success =>
              ~Falsy(presult.transcript) /\ ~Falsy(presult.llmResponse))

\* C12: the result of process has success false exactly when ASR or the
\* LLM failed; it has success true exactly when both a transcript and a
\* response were produced, and then it holds both.
C12_FailureFromAsrOrLlm ==
    ppc = "done"
    => /\ (~presult.success <=> (~AsrSucceeded \/ ~LlmSucceeded))
       /\ (presult.success =>
              /\ presult.transcript = AsrTranscript
              /\ presult.llmResponse = LlmText
              /\ ~Falsy(presult.transcript) /\ ~Falsy(presult.llmResponse))

\* ASR produced a transcript, the LLM failed, and the result is a failure
C12_Witness ==
    /\ ppc = "done"
    /\ AsrSucceeded /\ LlmAnswered /\ ~LlmSucceeded
    /\ ~presult.success

\* C13: when ASR produced a transcript and the LLM failed, no TTS
\* provider is called, the result of process holds the transcript, the
\* reply of the /process route holds it, and so does what the bot's
\* processVoicePipeline resolves to unless its own fetch failed.
C13_TranscriptSurvivesLlmFailure ==
    (AsrSucceeded /\ LlmAnswered /\ ~LlmSucceeded)
    => /\ TtsCalls = {}
       /\ ppc = "done"
       /\ presult.transcript = AsrTranscript
       /\ reply # <<>> => reply[1].transcript = AsrTranscript
       /\ botResult # <<>> =>
             \/ botResult[1].transcript = AsrTranscript
             \/ (reply[1].status = 200 /\
                 botResult[1] = processVoicePipeline(reply[1], TRUE))

\* C14: the requests of one process call go out one at a time: only the
\* last one can be pending; an LLM request is the second request and
\* follows an ASR answer with a transcript; a TTS request comes third or
\* later and follows an LLM answer with a response; there is at most one
\* ASR request and one LLM request.
C14_StagesSequential ==
    /\ \A i \in 1..Len(calls) : calls[i].answer = "pending" => i = Len(calls)
    /\ \A i \in AsrCalls : i = 1
    /\ \A i \in LlmCalls : i = 2 /\ AsrSucceeded
    /\ \A i \in TtsCalls : i >= 3 /\ LlmSucceeded
    /\ Cardinality(AsrCalls) <= 1
    /\ Cardinality(LlmCalls) <= 1

\* the first TTS request is pending, after ASR and LLM answers
C14_Witness ==
    /\ Len(calls) = 3
    /\ calls[3].to \in TtsEndpoints
    /\ calls[3].answer = "pending"
    /\ AsrSucceeded /\ LlmSucceeded

\* C15: TTS providers are called in the order Cloudflare, ElevenLabs,
\* Piper, each after the one before it has failed; once process has
\* ended with a provider that succeeded, that provider is the last one
\* called and the audio of the result is the Buffer it produced.
C15_FirstTtsSuccessWins ==
    /\ \A i, j \in TtsCalls : i < j => TtsRank(calls[i].to) < TtsRank(calls[j].to)
    /\ \A i \in TtsCalls : i < Len(calls) => TtsFailed(i)
    /\ (ppc = "done" /\ TtsCalls # {} /\ ~TtsFailed(Len(calls)))
       => /\ presult.success
          /\ presult.audioResponse = TtsResultOf(Len(calls))

\* Cloudflare failed, Piper succeeded, and the result holds Piper's bytes
C15_Witness ==
    /\ ppc = "done"
    /\ Cardinality(TtsCalls) = 2
    /\ TtsFailed(Len(calls) - 1)
    /\ calls[Len(calls)].to = "tts:piper"
    /\ presult.audioResponse = <<"riff", "pcm">>

\* ================================================================ pcmToWav
\* A Buffer is a sequence of bytes, 0..255.
bitDepth == 16
headerSize == 44

\* what a write of a value that does not fit its field throws
RangeError == <<"RangeError">>

\* Buffer.write of the four ASCII characters
RIFF == <<82, 73, 70, 70>>
WAVE == <<87, 65, 86, 69>>
fmt_ == <<102, 109, 116, 32>>
data == <<100, 97, 116, 97>>

\* writeUInt16LE, writeUInt32LE: the bytes written
UInt16LE(value) == <<value % 256, (value \div 256) % 256>>
UInt32LE(value) ==
    <<value % 256, (value \div 256) % 256, (value \div 65536) % 256,
      (value \div 16777216) % 256>>
\* writeUInt16LE throws for a value above 65535
FitsUInt16(value) == value >= 0 /\ value <= 65535

\* Buffer.concat(pcmChunks)
RECURSIVE Buffer_concat_Reversed(_)
Buffer_concat_Reversed(list) ==
    IF list = <<>> THEN <<>> ELSE Buffer_concat_Reversed(Tail(list)) \o Head(list)

RECURSIVE Buffer_concat(_)
Buffer_concat(list) ==
    IF list = <<>> THEN <<>> ELSE Head(list) \o Buffer_concat(Tail(list))

\* Buffer.alloc(size): size zero bytes
Buffer_alloc(size) == [i \in 1..size |-> 0]

\* buffer.write / writeUInt / copy: bytes put into buffer from offset on
write(buffer, bytes, offset) ==
    [i \in 1..Len(buffer) |->
        IF i > offset /\ i <= offset + Len(bytes) THEN bytes[i - offset]
        ELSE buffer[i]]

\* pcmToWav that writes the sample rate where the byte rate belongs
pcmToWav_RatesSwapped(pcmBuffer, sampleRate, channels) ==
    LET byteRate == sampleRate * channels * (bitDepth \div 8)
        blockAlign == channels * (bitDepth \div 8)
        dataSize == Len(pcmBuffer)
        b0 == Buffer_alloc(headerSize + dataSize)
        b1 == write(b0, RIFF, 0)
        b2 == write(b1, UInt32LE(36 + dataSize), 4)
        b3 == write(b2, WAVE, 8)
        b4 == write(b3, fmt_, 12)
        b5 == write(b4, UInt32LE(16), 16)
        b6 == write(b5, UInt16LE(1), 20)
        b7 == write(b6, UInt16LE(channels), 22)
        b8 == write(b7, UInt32LE(sampleRate), 28)
        b9 == write(b8, UInt32LE(byteRate), 24)
        b10 == write(b9, UInt16LE(blockAlign), 32)
        b11 == write(b10, UInt16LE(bitDepth), 34)
        b12 == write(b11, data, 36)
        b13 == write(b12, UInt32LE(dataSize), 40)
    IN  IF ~FitsUInt16(channels) \/ ~FitsUInt16(blockAlign) THEN RangeError
        ELSE write(b13, pcmBuffer, 44)

\* pcmToWav(pcmBuffer, sampleRate, channels): a Buffer of 44 + dataSize
\* bytes, the header fields written at their offsets and the samples
\* copied in from offset 44; RangeError when channels or blockAlign does
\* not fit its 16-bit field.
pcmToWav(pcmBuffer, sampleRate, channels) ==
    LET byteRate == sampleRate * channels * (bitDepth \div 8)
        blockAlign == channels * (bitDepth \div 8)
        dataSize == Len(pcmBuffer)
        b0 == Buffer_alloc(headerSize + dataSize)
        b1 == write(b0, RIFF, 0)
        b2 == write(b1, UInt32LE(36 + dataSize), 4)
        b3 == write(b2, WAVE, 8)
        b4 == write(b3, fmt_, 12)
        b5 == write(b4, UInt32LE(16), 16)
        b6 == write(b5, UInt16LE(1), 20)
        b7 == write(b6, UInt16LE(channels), 22)
        b8 == write(b7, UInt32LE(sampleRate), 24)
        b9 == write(b8, UInt32LE(byteRate), 28)
        b10 == write(b9, UInt16LE(blockAlign), 32)
        b11 == write(b10, UInt16LE(bitDepth), 34)
        b12 == write(b11, data, 36)
        b13 == write(b12, UInt32LE(dataSize), 40)
    IN  IF ~FitsUInt16(channels) \/ ~FitsUInt16(blockAlign) THEN RangeError
        ELSE write(b13, pcmBuffer, 44)

\* The decoded frames an utterance is made of, and the (sampleRate,
\* channels) pcmToWav can be called with: its defaults, which are what
\* processVoicePipeline passes, other formats, and a channel count whose
\* blockAlign does not fit.
WavFrames == {<<0, 1>>, <<255, 128, 7, 9>>, <<16, 32, 64>>}
WavFormats ==
    {<<48000, 2>>, <<48000, 1>>, <<44100, 2>>, <<16000, 1>>, <<8000, 32768>>}
WavChunkLists ==
    UNION {[1..n -> WavFrames] : n \in 0..MaxWavFrames}

\* onSilenceDetected from Buffer.concat on, for an utterance of
\* minPacketCount frames or more: processVoicePipeline frames the bytes
\* with pcmToWav(pcmBuffer, 48000, 2) and sends them.
FinalizeWav ==
    /\ wavRate = 0
    /\ Len(wavChunks) >= minPacketCount
    /\ wavRate' = 48000
    /\ wavChannels' = 2
    /\ wavBuffer' = pcmToWav(Buffer_concat(wavChunks), 48000, 2)
    /\ UNCHANGED <<wavChunks, svars, pvars, rvars>>

\* a call of pcmToWav with a sample rate and a channel count
PcmToWav(sampleRate, channels) ==
    /\ wavRate = 0
    /\ wavRate' = sampleRate
    /\ wavChannels' = channels
    /\ wavBuffer' = pcmToWav(Buffer_concat(wavChunks), sampleRate, channels)
    /\ UNCHANGED <<wavChunks, svars, pvars, rvars>>

WInit ==
    /\ wavChunks \in WavChunkLists
    /\ wavRate = 0 /\ wavChannels = 0 /\ wavBuffer = <<>>

WavInit == SInit /\ PIdle /\ WInit /\ RIdle

WavNext ==
    \/ FinalizeWav
    \/ \E f \in WavFormats : PcmToWav(f[1], f[2])

WavSpec == WavInit /\ [][WavNext]_vars

\* ---------------------------------------------------------- a WAV reader
\* The reader of a canonical WAV file: a 44-byte header, then the samples.
ReadUInt16LE(buffer, offset) == buffer[offset + 1] + 256 * buffer[offset + 2]
ReadUInt32LE(buffer, offset) ==
    buffer[offset + 1] + 256 * buffer[offset + 2] + 65536 * buffer[offset + 3]
    + 16777216 * buffer[offset + 4]
parseWav(buffer) ==
    [chunkId |-> SubSeq(buffer, 1, 4),
     chunkSize |-> ReadUInt32LE(buffer, 4),
     format |-> SubSeq(buffer, 9, 12),
     fmtId |-> SubSeq(buffer, 13, 16),
     fmtSize |-> ReadUInt32LE(buffer, 16),
     audioFormat |-> ReadUInt16LE(buffer, 20),
     channels |-> ReadUInt16LE(buffer, 22),
     sampleRate |-> ReadUInt32LE(buffer, 24),
     byteRate |-> ReadUInt32LE(buffer, 28),
     blockAlign |-> ReadUInt16LE(buffer, 32),
     bitsPerSample |-> ReadUInt16LE(buffer, 34),
     dataId |-> SubSeq(buffer, 37, 40),
     dataSize |-> ReadUInt32LE(buffer, 40),
     samples |-> SubSeq(buffer, 45, 44 + ReadUInt32LE(buffer, 40))]

\* ========================================================= claims: pcmToWav
RECURSIVE totalLength(_)
totalLength(list) ==
    IF list = <<>> THEN 0 ELSE Len(Head(list)) + totalLength(Tail(list))

\* C18: the WAV of a finalized utterance of minPacketCount frames or more
\* is 44 bytes longer than the frames together; after byte 44 it holds
\* the frames' bytes, frame after frame in arrival order; the RIFF size
\* field holds 36 + dataSize and the data size field holds dataSize.
C18_WavOfUtterance ==
    (/\ wavRate = 48000 /\ wavChannels = 2
     /\ Len(wavChunks) >= minPacketCount)
    => /\ Len(wavBuffer) = 44 + totalLength(wavChunks)
       /\ \A k \in 1..Len(wavChunks) : \A j \in 1..Len(wavChunks[k]) :
             wavBuffer[44 + totalLength(SubSeq(wavChunks, 1, k - 1)) + j]
                = wavChunks[k][j]
       /\ ReadUInt32LE(wavBuffer, 4) = 36 + totalLength(wavChunks)
       /\ ReadUInt32LE(wavBuffer, 40) = totalLength(wavChunks)

\* the WAV of three frames of 2, 4 and 3 bytes: 44 + 9 bytes
C18_Witness ==
    /\ wavRate = 48000 /\ wavChannels = 2
    /\ wavChunks = <<<<0, 1>>, <<255, 128, 7, 9>>, <<16, 32, 64>>>>
    /\ Len(wavBuffer) = 44 + 9

limit == 2

\* JavaScript values the handler's condition can test
Promise(b) == [type |-> "Promise", value |-> b]
\* ToBoolean: an object, a Promise included, is truthy whatever it
\* resolves to
ToBoolean(v) == IF v.type = "boolean" THEN v.value ELSE TRUE

\* RateLimiter.checkLimit: INCR of the key (EXPIRE on the first increment
\* starts the window), allowed = current <= limit; a Redis error resolves
\* to true.  An async function: the caller gets a Promise.
checkLimit(store, userId, guildId, redisThrows) ==
    IF redisThrows
    THEN [redis |-> store, current |-> store[userId][guildId],
          returns |-> Promise(TRUE)]
    ELSE LET current == store[userId][guildId] + 1
         IN [redis |-> [store EXCEPT ![userId][guildId] = current],
             current |-> current,
             returns |-> Promise(current <= limit)]

\* client.on(Events.MessageCreate): addressed is false for a message the
\* handler ignores (a bot's, or one with no mention while chat is off)
MessageCreate(userId, guildId, addressed, redisThrows) ==
    /\ redis[userId][guildId] <= limit
    /\ IF ~addressed
       THEN /\ lastMessage' = [user |-> userId, guild |-> guildId, current |-> 0,
                               forwarded |-> FALSE, reply |-> "none"]
            /\ UNCHANGED redis
       ELSE LET c == checkLimit(redis, userId, guildId, redisThrows)
            IN /\ redis' = c.redis
               /\ lastMessage' =
                    IF ~ToBoolean(c.returns)
                    THEN [user |-> userId, guild |-> guildId, current |-> c.current,
                          forwarded |-> FALSE, reply |-> "rate-limit"]
                    ELSE [user |-> userId, guild |-> guildId, current |-> c.current,
                          forwarded |-> TRUE, reply |-> "answer"]
    /\ UNCHANGED <<svars, pvars, wvars>>

\* the window ends: Redis expires the key
KeyExpires(userId, guildId) ==
    /\ redis[userId][guildId] > 0
    /\ redis' = [redis EXCEPT ![userId][guildId] = 0]
    /\ UNCHANGED <<lastMessage, svars, pvars, wvars>>

ChatNext ==
    \/ \E u \in Users, g \in Guilds, a \in BOOLEAN, t \in BOOLEAN :
          MessageCreate(u, g, a, t)
    \/ \E u \in Users, g \in Guilds : KeyExpires(u, g)

ChatSpec == Init /\ [][ChatNext]_vars

\* C23: a handled message that is the user's (limit+1)-th or later one in
\* the guild within the window is not forwarded to the AI worker and gets
\* the rate-limit reply.
C23_RateLimitEnforced ==
    [][(/\ lastMessage'.user # NoUser
        /\ redis'[lastMessage'.user][lastMessage'.guild]
             = redis[lastMessage'.user][lastMessage'.guild] + 1
        /\ redis'[lastMessage'.user][lastMessage'.guild] > limit)
       => /\ ~lastMessage'.forwarded
          /\ lastMessage'.reply = "rate-limit"]_vars

\* ------------------------------------------------------------- liveness
\* The session machine with a silence timer that fires once it is pending,
\* pipeline calls that complete and playback that ends.
LiveSpec ==
    /\ Init /\ [][Next]_vars
    /\ WF_vars(\E s \in SessionIds : SilenceTimerFires(s))
    /\ WF_vars(\E i \in 1..MaxInflight, result \in PipelineResults,
                  playThrows \in BOOLEAN : PipelineCompletes(i, result, playThrows))
    /\ WF_vars(\E s \in SessionIds : PlayerStateChange(s, "idle"))

\* session object s holds an utterance of at least minPacketCount frames
Buffered(s) ==
    /\ sessions[s].inUse
    /\ Map_get(activeSessions, sessions[s].userId) = s
    /\ Len(sessions[s].audioChunks) >= minPacketCount

\* a further frame, a speech start, or the end of the session
Interrupt(s) ==
    /\ lastEvent'.op \in {"data", "speaking", "leave", "disconnected", "destroyed"}
    /\ lastEvent'.session = s

\* C24: a session that holds at least minPacketCount buffered frames, and
\* then gets no further frame or speech start and is not left, eventually
\* hands the utterance to processVoicePipeline.
\* Stated on whole behaviours: no session stays forever with such a buffer
\* unless frames, speech starts or teardowns keep arriving (the buffer of a
\* session that stays is emptied by a hand-off only).
C24_BufferedUtteranceHandedOff ==
    \A s \in 1..MaxSessions :
        \/ []<>(~Buffered(s))
        \/ []<><<Interrupt(s)>>_vars

\* C25: in every reachable state a session of activeSessions whose player
\* is playing has isProcessing true.
C25_ProcessingWhilePlaying ==
    \A s \in SessionIds :
        (/\ sessions[s].inUse
         /\ Map_get(activeSessions, sessions[s].userId) = s
         /\ sessions[s].player = "playing")
        => sessions[s].isProcessing

\* C26: a finalize that calls processVoicePipeline leaves, in the same
\* step, isProcessing true and the buffer empty, and the one call it adds
\* holds exactly the frames that were buffered; a call in flight keeps
\* its frames through every step of other handlers.
C26_HandOffAtomic ==
    [][/\ \A sid \in SessionIds :
            (Finalize(sid) /\ Len(inflight') > Len(inflight))
            => /\ sessions'[sid].isProcessing
               /\ sessions'[sid].audioChunks = <<>>
               /\ Len(inflight') = Len(inflight) + 1
               /\ inflight'[Len(inflight')].pcm = sessions[sid].audioChunks
               /\ inflight'[Len(inflight')].userId = lastEvent'.user
       /\ lastEvent'.op # "completed"
            => SubSeq(Pending(inflight'), 1, Len(inflight)) = Pending(inflight)]_vars
C26_Witness ==
    /\ lastEvent.op = "timer" /\ lastEvent.ret
    /\ lastEvent.session # NoSession
    /\ sessions[lastEvent.session].isProcessing
    /\ sessions[lastEvent.session].audioChunks = <<>>
    /\ Len(inflight) = 1
    /\ Len(inflight[1].pcm) = minPacketCount

\* C27: a decoded frame of fewer than MinFrameSize bytes changes nothing:
\* it is not appended, the silence timer is neither armed nor re-armed, no
\* finalize runs and no call is issued; the same holds for every frame
\* the handler does not accept.
C27_NoiseFrameIgnored ==
    [][(/\ lastEvent'.op = "data"
        /\ \/ lastEvent'.arg < MinFrameSize
           \/ ~lastEvent'.ret)
       => /\ sessions' = sessions
          /\ activeSessions' = activeSessions
          /\ Pending(inflight') = Pending(inflight)]_vars
C27_Witness ==
    /\ lastEvent.op = "data"
    /\ lastEvent.arg = MinFrameSize - 1
    /\ lastEvent.session # NoSession
    /\ ~sessions[lastEvent.session].isProcessing
    /\ sessions[lastEvent.session].audioChunks = <<>>
    /\ sessions[lastEvent.session].silenceTimer = "null"

\* ======================================================= provider fallback
\* the endpoints process has sent a request to
Attempted == {calls[i].to : i \in 1..Len(calls)}

\* C28: when process has ended and the ASR stage failed although both the
\* local and the external ASR provider are configured, both were attempted;
\* the same for the LLM stage and its two providers.
C28_AsrLlmFallback ==
    ppc = "done"
    => /\ (/\ AsrCalls # {} /\ ~AsrSucceeded /\ pcfg.asrExternalUrl # "")
          => AsrEndpoints \subseteq Attempted
       /\ (/\ AsrSucceeded /\ LlmAnswered /\ ~LlmSucceeded /\ pcfg.llmBaseUrl # "")
          => LlmEndpoints \subseteq Attempted

\* C29: when Cloudflare is the selected and configured TTS provider and
\* process has ended with a response but without audio, ElevenLabs was
\* attempted if its key is configured and Piper if its URL is configured.
C29_TtsFallsBackThroughAll ==
    (/\ ppc = "done" /\ AsrSucceeded /\ LlmSucceeded
     /\ presult.audioResponse = Undefined
     /\ pcfg.ttsProvider = "cloudflare"
     /\ pcfg.cfApiToken # "" /\ pcfg.cfAccountId # "")
    => /\ "tts:cloudflare" \in Attempted
       /\ pcfg.elevenLabsKey # "" => "tts:elevenlabs" \in Attempted
       /\ pcfg.piperTtsUrl # "" => "tts:piper" \in Attempted

\* ================================================== reasoning-trace filter
\* content holds a start marker followed by an end marker
HasThinkBlock(content) ==
    \E i, j \in 1..Len(content) :
        i < j /\ content[i] = "<think>" /\ content[j] = "</think>"

\* the content after the end marker that closes the first start marker
AfterThink(content) ==
    LET i == CHOOSE k \in 1..Len(content) :
                 /\ content[k] = "<think>"
                 /\ \A m \in 1..(k - 1) : content[m] # "<think>"
        j == CHOOSE k \in (i + 1)..Len(content) :
                 /\ content[k] = "</think>"
                 /\ \A m \in (i + 1)..(k - 1) : content[m] # "</think>"
    IN  SubSeq(content, j + 1, Len(content))

\* C30: for an LLM output with a start marker followed by an end marker,
\* generateResponse resolves to the trimmed content after the end marker;
\* for an output without a start marker, to the output unchanged.
C30_ThinkBlockStripped ==
    (LlmAnswered /\ calls[2].answer = "ok" /\ ~Falsy(calls[2].body))
    => /\ HasThinkBlock(calls[2].body)
            => LlmText = trim(AfterThink(calls[2].body))
       /\ (\A i \in 1..Len(calls[2].body) : calls[2].body[i] # "<think>")
            => LlmText = calls[2].body

\* ====================================================== claims: capture
\* C31: a speech start of another user changes no session, no map entry
\* and no call in flight; a speech start that changes the session it is
\* delivered to (buffer, timer, decoder, subscription) carries the userId
\* of that session, which is the track it subscribes.
C31_OnlyOwnUserCaptured ==
    [][lastEvent'.op = "speaking"
       => /\ lastEvent'.user # sessions[lastEvent'.session].userId
             => /\ sessions' = sessions
                /\ activeSessions' = activeSessions
                /\ Pending(inflight') = Pending(inflight)
          /\ sessions' # sessions
             => /\ lastEvent'.user = sessions[lastEvent'.session].userId
                /\ lastEvent'.ret]_vars
C31_Witness ==
    /\ lastEvent.op = "speaking" /\ ~lastEvent.ret
    /\ lastEvent.session # NoSession
    /\ lastEvent.user # sessions[lastEvent.session].userId
    /\ sessions[lastEvent.session].currentDecoder
    /\ sessions[lastEvent.session].currentAudioStream
    /\ Len(sessions[lastEvent.session].audioChunks) > 0
    /\ sessions[lastEvent.session].silenceTimer = "pending"
    /\ ~sessions[lastEvent.session].isProcessing

\* C32: every session object has at most one 'start' listener registered
\* on its receiver, exactly one when session.speakingListener is set and
\* none otherwise, however often Ready fires; a teardown (a leave that
\* returns true, a Disconnected) leaves the object without a listener.
C32_OneSpeakingListener ==
    [][/\ \A s \in SessionIds :
            /\ sessions'[s].receiverListeners \in {0, 1}
            /\ sessions'[s].receiverListeners = 1 <=> sessions'[s].speakingListener
       /\ \A sid \in SessionIds :
            (/\ \/ lastEvent'.op = "leave" /\ lastEvent'.ret
                \/ lastEvent'.op = "disconnected"
             /\ sid = Map_get(activeSessions, lastEvent'.user))
            => /\ cleanup(activeSessions, sessions, lastEvent'.user)
                     .sessions[sid].receiverListeners = 0
               /\ sessions'[sid].receiverListeners = 0]_vars
\* Ready fires again on a session that has already captured speech
C32_Witness ==
    /\ lastEvent.op = "ready"
    /\ lastEvent.session # NoSession
    /\ sessions[lastEvent.session].currentDecoder
    /\ sessions[lastEvent.session].speakingListener
    /\ sessions[lastEvent.session].receiverListeners = 1

\* C33: a leave(u) called while activeSessions holds a session of u ends
\* with no session of u in activeSessions, whatever throws on the way.
C33_LeaveAlwaysRemoves ==
    [][(lastEvent'.op = "leave" /\ Map_has(activeSessions, lastEvent'.user))
       => ~Map_has(activeSessions', lastEvent'.user)]_vars

\* session object s is in activeSessions with isProcessing true, its
\* player idle and no processVoicePipeline call of it in flight
Deaf(s) ==
    /\ sessions[s].inUse
    /\ Map_get(activeSessions, sessions[s].userId) = s
    /\ sessions[s].isProcessing
    /\ sessions[s].player = "idle"
    /\ InFlightOf(s) = {}

\* C34: with no call in flight, isProcessing does not stay true for ever
\* once the player is back in idle, whatever states the player went through.
C34_EchoGuardReleased ==
    \A s \in 1..MaxSessions : []<>(~Deaf(s))

\* frames a is a prefix of frames b
IsPrefix(a, b) == Len(a) <= Len(b) /\ SubSeq(b, 1, Len(a)) = a

\* the step issues one call whose bytes start with the frames old
HandedOff(old) ==
    /\ Len(inflight') = Len(inflight) + 1
    /\ IsPrefix(old, inflight'[Len(inflight')].pcm)

\* C35: outside a teardown, a frame the data handler accepts is appended
\* to the buffer or is part of the call issued in the same step, and the
\* frames in a buffer leave it only into one call or, when they are fewer
\* than minPacketCount, in a finalize that discards them as noise.
C35_NoAcceptedFrameLost ==
    [][\A s \in SessionIds :
        (/\ sessions[s].inUse /\ sessions'[s].inUse
         /\ lastEvent'.op \notin {"leave", "disconnected", "joinAndListen"})
        => /\ (lastEvent'.op = "data" /\ lastEvent'.session = s /\ lastEvent'.ret)
              => \/ sessions'[s].audioChunks
                      = Append(sessions[s].audioChunks, lastEvent'.arg)
                 \/ HandedOff(Append(sessions[s].audioChunks, lastEvent'.arg))
           /\ ~IsPrefix(sessions[s].audioChunks, sessions'[s].audioChunks)
              => \/ HandedOff(sessions[s].audioChunks)
                 \/ /\ Len(sessions[s].audioChunks) < minPacketCount
                    /\ lastEvent'.op \in {"timer", "data"}]_vars

\* ================================================================= re-join
\* The service with room for the object of a previous session besides the
\* one activeSessions holds, under joins, capture and teardown.
RejoinInit ==
    /\ activeSessions = <<>>
    /\ sessions = [s \in 1..(MaxSessions + 1) |-> Blank]
    /\ inflight = <<>>
    /\ lastEvent = Event("none", NoSession, NoUser, FALSE, 0)
    /\ joined = {}
    /\ PIdle /\ WIdle /\ RIdle

RejoinNext ==
    \/ \E u \in Users, joinThrows \in BOOLEAN : JoinAndListen(u, joinThrows)
    \/ \E u \in Users : Leave(u)
    \/ \E s \in SessionIds : ConnectionReady(s)
    \/ \E s \in SessionIds : ConnectionDisconnected(s)
    \/ \E s \in SessionIds, su \in Users : SpeakingStart(s, su)
    \/ \E s \in SessionIds, pcmLength \in FrameSizes : DecoderData(s, pcmLength)
    \/ \E s \in SessionIds : SilenceTimerFires(s)

RejoinSpec == RejoinInit /\ [][RejoinNext]_vars

\* the session object holds nothing that can still run or fire
Dead(sess) ==
    /\ sess.silenceTimer # "pending"
    /\ ~sess.currentDecoder
    /\ ~sess.currentAudioStream
    /\ ~sess.speakingListener
    /\ sess.receiverListeners = 0
    /\ ~sess.playerListeners
    /\ sess.connection = "destroyed"

\* C36: a joinAndListen(u) that succeeds while activeSessions holds a
\* session of u leaves the previous session object with no pending timer,
\* no decoder or audio stream, no speaking listener, no player listener
\* and no connection whose handlers can run; and a timer or Disconnected
\* callback of an object that is not the one activeSessions holds for its
\* user changes neither activeSessions nor any other object.
C36_RejoinReleasesPrevious ==
    [][/\ \A old \in SessionIds :
            (/\ lastEvent'.op = "joinAndListen" /\ lastEvent'.ret
             /\ Map_get(activeSessions, lastEvent'.user) = old)
            => Dead(sessions'[old])
       /\ \A s \in SessionIds :
            (/\ lastEvent'.op \in {"timer", "disconnected"}
             /\ lastEvent'.session = s
             /\ Map_get(activeSessions, lastEvent'.user) # s)
            => /\ activeSessions' = activeSessions
               /\ \A t \in SessionIds \ {s} : sessions'[t] = sessions[t]
               /\ Len(inflight') = Len(inflight)]_vars

\* C37: when the result of a call arrives, no session object other than
\* the one the call was started for has its player started or its
\* isProcessing changed.
C37_ResultPlayedInOwnSession ==
    [][\A s \in SessionIds :
        (/\ lastEvent'.op = "completed"
         /\ lastEvent'.session # s
         /\ sessions[s].inUse)
        => /\ sessions'[s].player = sessions[s].player
           /\ sessions'[s].isProcessing = sessions[s].isProcessing]_vars

\* ======================================================= claims: empty text
\* C38: an LLM request is sent only with the non-empty transcript the ASR
\* answer gave and a TTS request only with the non-empty response the LLM
\* answer gave; after an ASR answer without text no LLM request is sent
\* and process ends with the ASR error; after an LLM answer that is empty,
\* also once the <think> block is stripped, no TTS request is sent and
\* process ends with the LLM error.
C38_NoEmptyTextDownstream ==
    /\ LlmCalls # {} => ~Falsy(transcript) /\ transcript = AsrTranscript
    /\ TtsCalls # {} => ~Falsy(llmResponse) /\ llmResponse = LlmText
    /\ (/\ Len(calls) >= 1 /\ calls[1].answer = "ok" /\ Falsy(calls[1].body))
       => /\ LlmCalls = {} /\ TtsCalls = {}
          /\ ppc = "done" /\ ~presult.success /\ presult.error = "ASR"
    /\ (LlmAnswered /\ calls[2].answer = "ok" /\ Falsy(LlmText))
       => /\ TtsCalls = {}
          /\ ppc = "done" /\ ~presult.success /\ presult.error = "LLM"
\* the LLM answered with a reasoning block and nothing after it
C38_Witness ==
    /\ ppc = "done"
    /\ LlmAnswered /\ calls[2].answer = "ok"
    /\ HasThinkBlock(calls[2].body)
    /\ LlmText = <<>>
    /\ TtsCalls = {}
    /\ presult.error = "LLM"

\* C39: no session object has a pending silence timer while its
\* isProcessing is true.
C39_NoTimerWhileProcessing ==
    \A s \in SessionIds :
        (sessions[s].inUse /\ sessions[s].isProcessing)
        => sessions[s].silenceTimer # "pending"
====
